---- MODULE Spec2Model ----
(***************************************************************************)
(* The WeatherApp component of src/src/WeatherApp.tsx: its three state     *)
(* slots (loading, error, weatherData), the mount effect that asks the     *)
(* host for a position, and fetchWeatherData, which awaits three requests  *)
(* one after another and merges their JSON bodies into one WeatherData.    *)
(*                                                                         *)
(* A step of the model is one run of JavaScript between two suspension     *)
(* points: the effect, a positioning callback, or the continuation of an   *)
(* await.  JavaScript values are tagged records, so that undefined, null,  *)
(* numbers, strings, arrays and objects can be told apart and a property   *)
(* read of undefined or null can throw as it does in the program.          *)
(***************************************************************************)
EXTENDS Integers, Sequences, FiniteSets, TLC

\* Longest daily and hourly series an upstream body carries.
MaxDays == 2
MaxHours == 2

(***************************************************************************)
(* JavaScript values.                                                      *)
(***************************************************************************)
Undefined == [t |-> "undefined"]
Null == [t |-> "null"]
Num(n) == [t |-> "number", v |-> n]
Str(s) == [t |-> "string", v |-> s]
Arr(q) == [t |-> "array", v |-> q]
Obj(r) == [t |-> "object", v |-> r]

\* A local const that has not been assigned yet.
Unassigned == [t |-> "unassigned"]

\* Reading a property of undefined or null throws a TypeError.
Nullish(x) == x.t \in {"undefined", "null"}

\* o.f : the property f of o (undefined when o has no such property).
Prop(o, f) ==
    IF o.t = "object" /\ f \in DOMAIN o.v THEN o.v[f] ELSE Undefined

\* a[i] with JavaScript's 0-based index i: undefined outside the array.
Index(a, i) ==
    IF a.t = "array" /\ (i + 1) \in 1..Len(a.v) THEN a.v[i + 1] ELSE Undefined

\* JavaScript truthiness, as `||` tests it.
Truthy(x) ==
    /\ ~Nullish(x)
    /\ ~(x.t = "string" /\ x.v = "")
    /\ ~(x.t = "number" /\ x.v = 0)

\* `??` in place of `||`: only undefined and null take the default.
OrElseNullish(a, b) == IF Nullish(a) THEN b ELSE a

\* a || b
OrElse(a, b) == IF Truthy(a) THEN a ELSE b

(***************************************************************************)
(* What the host can answer.                                               *)
(***************************************************************************)
Pending == [t |-> "pending"]
Rejected == [t |-> "rejected"]
Response(ok) == [t |-> "response", ok |-> ok]
Position(lat, lon) == [t |-> "position", latitude |-> lat, longitude |-> lon]
PositionError == [t |-> "positionError"]

\* The position fixes the host may report (position.coords).
Positions == {Position(52, 13), Position(40, 74)}

\* The three requests of fetchWeatherData, in the order of the source.
Kinds == <<"currentWeather", "forecast", "location">>
KindSet == {Kinds[i] : i \in 1..Len(Kinds)}

\* Series of n entries; entry i is recognisable by its value.
Times(n) == Arr([i \in 1..n |-> Str("2024-06-0" \o ToString(i))])
MaxTemps(n) == Arr([i \in 1..n |-> Num(20 + i)])
MinTemps(n) == Arr([i \in 1..n |-> Num(10 + i)])
Sunrises(n) == Arr([i \in 1..n |-> Str("2024-06-0" \o ToString(i) \o "T04:45")])
Sunsets(n) == Arr([i \in 1..n |-> Str("2024-06-0" \o ToString(i) \o "T21:10")])
HourTimes(n) == Arr([i \in 1..n |-> Str("2024-06-01T0" \o ToString(i) \o ":00")])
HourTemps(n) == Arr([i \in 1..n |-> Num(15 + i)])

\* An array without its last element.
Shorter(a) == Arr(SubSeq(a.v, 1, Len(a.v) - 1))

DailyFields ==
    {"time", "temperature_2m_max", "temperature_2m_min", "sunrise", "sunset"}
HourlyFields == {"time", "temperature_2m"}

\* The daily block the forecast endpoint documents: five series of n days.
DailyOf(n) ==
    [time |-> Times(n), temperature_2m_max |-> MaxTemps(n),
     temperature_2m_min |-> MinTemps(n), sunrise |-> Sunrises(n),
     sunset |-> Sunsets(n)]
HourlyOf(n) == [time |-> HourTimes(n), temperature_2m |-> HourTemps(n)]

WellFormedDaily == {Obj(DailyOf(n)) : n \in 0..MaxDays}
WellFormedHourly == {Obj(HourlyOf(n)) : n \in 0..MaxHours}

\* A block of series, the same block with one series missing, and the same
\* block with one series one entry short; or no block at all.
DailyBlocks ==
    {Undefined}
    \cup WellFormedDaily
    \cup {Obj([DailyOf(n) EXCEPT ![f] = Undefined]) :
            n \in 0..MaxDays, f \in DailyFields}
    \cup {Obj([DailyOf(n) EXCEPT ![f] = Shorter(@)]) :
            n \in 1..MaxDays, f \in DailyFields}
HourlyBlocks ==
    {Undefined}
    \cup WellFormedHourly
    \cup {Obj([HourlyOf(n) EXCEPT ![f] = Undefined]) :
            n \in 0..MaxHours, f \in HourlyFields}
    \cup {Obj([HourlyOf(n) EXCEPT ![f] = Shorter(@)]) :
            n \in 1..MaxHours, f \in HourlyFields}

\* current_weather of the body of request A.
CurrentWeathers ==
    {Undefined}
    \cup {Obj([temperature |-> tp, windspeed |-> w]) :
            tp \in {Undefined, Num(18)}, w \in {Undefined, Num(3)}}

\* The daily block request A asks for as well; its values differ from B's.
CurrentDaily ==
    Obj([time |-> Arr(<<Str("2024-05-31")>>),
         temperature_2m_max |-> Arr(<<Num(99)>>),
         temperature_2m_min |-> Arr(<<Num(-99)>>),
         sunrise |-> Arr(<<Str("2024-05-31T04:46")>>),
         sunset |-> Arr(<<Str("2024-05-31T21:09")>>)])

\* The JSON bodies each endpoint may send.
Bodies(k) ==
    CASE k = "currentWeather" ->
           {Obj([current_weather |-> c, daily |-> CurrentDaily]) :
              c \in CurrentWeathers}
      [] k = "forecast" ->
           {Obj([daily |-> d, hourly |-> h]) :
              <<d, h>> \in (DailyBlocks \X WellFormedHourly)
                           \cup (WellFormedDaily \X HourlyBlocks)}
      [] k = "location" ->
           {Null}
           \cup {Obj([city |-> c, countryName |-> n]) :
                   c \in {Undefined, Str(""), Str("Berlin")},
                   n \in {Undefined, Str(""), Str("Germany")}}

(***************************************************************************)
(* State.                                                                  *)
(***************************************************************************)
VARIABLES
    runs,            \* the mounted WeatherApp instances
    hasGeolocation,  \* whether navigator.geolocation exists on the host
    weatherData,     \* useState<WeatherData | null>(null), per instance
    loading,         \* useState<boolean>(true)
    error,           \* useState<string | null>(null)
    pc,              \* where the instance's task chain is suspended
    coords,          \* the lat, lon fetchWeatherData was called with
    response,        \* currentWeatherResponse, forecastResponse, locationResponse
    data,            \* currentWeatherData, forecastData, locationData
    requests,        \* the fetch calls issued so far, in order
    inflight,        \* the requests issued and not yet completed
    served           \* what the host has answered so far, per question

vars ==
    <<runs, hasGeolocation, weatherData, loading, error, pc, coords, response,
      data, requests, inflight, served>>

At(a, k) == [at |-> a, req |-> k]
Mounted == At("mounted", "-")
AwaitPosition == At("getCurrentPosition", "-")
Done == At("done", "-")

Questions ==
    {<<"position", "-">>}
    \cup {<<"response", k>> : k \in KindSet}
    \cup {<<"body", k>> : k \in KindSet}

\* The answers the host may give to a question: any of the candidates the
\* first time it is asked, and the same answer to every instance after that.
Answers(q, candidates) == {a \in candidates : served[q] \in {Pending, a}}

(***************************************************************************)
(* The merge of fetchWeatherData, lines 64 to 96.                          *)
(***************************************************************************)
\* Whether building mappedWeatherData throws a TypeError.
MergeThrows(currentWeatherData, forecastData, locationData) ==
    LET current_weather == Prop(currentWeatherData, "current_weather")
        daily == Prop(forecastData, "daily")
        hourly == Prop(forecastData, "hourly")
    IN  \/ Nullish(currentWeatherData) \/ Nullish(current_weather)
        \/ Nullish(forecastData) \/ Nullish(daily)
        \/ Prop(daily, "time").t # "array"
        \/ /\ Len(Prop(daily, "time").v) > 0
           /\ \/ Nullish(Prop(daily, "temperature_2m_max"))
              \/ Nullish(Prop(daily, "temperature_2m_min"))
        \/ Nullish(hourly)
        \/ Prop(hourly, "time").t # "array"
        \/ /\ Len(Prop(hourly, "time").v) > 0
           /\ Nullish(Prop(hourly, "temperature_2m"))
        \/ Nullish(locationData)
        \/ Nullish(Prop(daily, "sunrise"))
        \/ Nullish(Prop(daily, "sunset"))

\* The merge reading the daily block of request A and taking the humidity
\* from the current conditions.
mappedFromCurrent(currentWeatherData, forecastData, locationData) ==
    LET current_weather == Prop(currentWeatherData, "current_weather")
        daily == Prop(currentWeatherData, "daily")
        hourly == Prop(forecastData, "hourly")
    IN  Obj([
          current |->
            [temperature |-> Prop(current_weather, "temperature"),
             windSpeed |-> Prop(current_weather, "windspeed"),
             humidity |-> Prop(current_weather, "windspeed"),
             uvIndex |-> Num(0),
             pressure |-> Num(0),
             condition |-> Str("Clear")],
          forecast |->
            [daily |->
               [i \in 1..Len(Prop(daily, "time").v) |->
                  [date |-> Prop(daily, "time").v[i],
                   temperatureMax |->
                     Index(Prop(daily, "temperature_2m_max"), i - 1),
                   temperatureMin |->
                     Index(Prop(daily, "temperature_2m_min"), i - 1),
                   condition |-> Str("Clear")]],
             hourly |->
               [i \in 1..Len(Prop(hourly, "time").v) |->
                  [time |-> Prop(hourly, "time").v[i],
                   temperature |->
                     Index(Prop(hourly, "temperature_2m"), i - 1),
                   condition |-> Str("Clear")]]],
          location |->
            [name |-> OrElse(Prop(locationData, "city"), Str("Unknown")),
             country |->
               OrElse(Prop(locationData, "countryName"), Str("Unknown"))],
          astronomy |->
            [sunrise |-> Index(Prop(daily, "sunrise"), 0),
             sunset |-> Index(Prop(daily, "sunset"), 0),
             dawn |-> Str(""),
             dusk |-> Str("")]])

\* The object literal of lines 64 to 96, when building it does not throw.
mappedWeatherData(currentWeatherData, forecastData, locationData) ==
    LET current_weather == Prop(currentWeatherData, "current_weather")
        daily == Prop(forecastData, "daily")
        hourly == Prop(forecastData, "hourly")
    IN  Obj([
          current |->
            [temperature |-> Prop(current_weather, "temperature"),
             windSpeed |-> Prop(current_weather, "windspeed"),
             humidity |-> Num(0),
             uvIndex |-> Num(0),
             pressure |-> Num(0),
             condition |-> Str("Clear")],
          forecast |->
            [daily |->
               [i \in 1..Len(Prop(daily, "time").v) |->
                  [date |-> Prop(daily, "time").v[i],
                   temperatureMax |->
                     Index(Prop(daily, "temperature_2m_max"), i - 1),
                   temperatureMin |->
                     Index(Prop(daily, "temperature_2m_min"), i - 1),
                   condition |-> Str("Clear")]],
             hourly |->
               [i \in 1..Len(Prop(hourly, "time").v) |->
                  [time |-> Prop(hourly, "time").v[i],
                   temperature |->
                     Index(Prop(hourly, "temperature_2m"), i - 1),
                   condition |-> Str("Clear")]]],
          location |->
            [name |-> OrElse(Prop(locationData, "city"), Str("Unknown")),
             country |->
               OrElse(Prop(locationData, "countryName"), Str("Unknown"))],
          astronomy |->
            [sunrise |-> Index(Prop(daily, "sunrise"), 0),
             sunset |-> Index(Prop(daily, "sunset"), 0),
             dawn |-> Str(""),
             dusk |-> Str("")]])

(***************************************************************************)
(* The steps of the component.  The state setters a step calls are batched *)
(* into the step: the next render sees all of them or none.                *)
(***************************************************************************)
\* The request fetch() is called with: the endpoint and the coordinate.
Request(k, p) == [kind |-> k, latitude |-> p.latitude, longitude |-> p.longitude]

\* await fetch(...): issue request k and suspend until the host answers;
\* `completed` are the requests the step has just finished with.
Fetch(r, k, p, completed) ==
    /\ pc' = [pc EXCEPT ![r] = At("fetch", k)]
    /\ requests' = [requests EXCEPT ![r] = Append(@, Request(k, p))]
    /\ inflight' = [inflight EXCEPT ![r] = (@ \ completed) \cup {k}]

\* The ok check left out: a non-success response is read like any other.
NotOkIgnored(resp) == FALSE

\* if (!response.ok) throw ...  (lines 47, 53 and 59)
NotOk(resp) == ~resp.ok

\* The failure reported without leaving the function: after a failed fetch
\* the body is read and the chain goes on.
CatchAndContinue(r) ==
    /\ error' = [error EXCEPT ![r] = Str("Failed to fetch weather data")]
    /\ loading' = [loading EXCEPT ![r] = FALSE]
    /\ pc' = [pc EXCEPT ![r] =
                IF @.at = "fetch" THEN At("json", @.req) ELSE Done]
    /\ inflight' = [inflight EXCEPT ![r] = IF pc[r].at = "fetch" THEN @ ELSE {}]
    /\ UNCHANGED <<weatherData, requests>>

\* The catch block without its setLoading(false) call.
CatchWithoutSetLoading(r) ==
    /\ error' = [error EXCEPT ![r] = Str("Failed to fetch weather data")]
    /\ pc' = [pc EXCEPT ![r] = Done]
    /\ inflight' = [inflight EXCEPT ![r] = {}]
    /\ UNCHANGED <<weatherData, loading, requests>>

\* catch (err) { setError('Failed to fetch weather data'); setLoading(false) }
CatchHandler(r) ==
    /\ error' = [error EXCEPT ![r] = Str("Failed to fetch weather data")]
    /\ loading' = [loading EXCEPT ![r] = FALSE]
    /\ pc' = [pc EXCEPT ![r] = Done]
    /\ inflight' = [inflight EXCEPT ![r] = {}]
    /\ UNCHANGED <<weatherData, requests>>

\* setWeatherData(mappedWeatherData); setLoading(false)
StoreSnapshot(r, mapped) ==
    /\ weatherData' = [weatherData EXCEPT ![r] = mapped]
    /\ loading' = [loading EXCEPT ![r] = FALSE]
    /\ pc' = [pc EXCEPT ![r] = Done]
    /\ inflight' = [inflight EXCEPT ![r] = {}]
    /\ UNCHANGED <<error, requests>>

\* The else branch falling back to a default coordinate instead of failing.
GeolocationFallback(r) ==
    /\ coords' = [coords EXCEPT ![r] = Position(0, 0)]
    /\ Fetch(r, "currentWeather", Position(0, 0), {})
    /\ UNCHANGED <<weatherData, loading, error>>

\* The else branch without its setError call.
UnsupportedWithoutError(r) ==
    /\ loading' = [loading EXCEPT ![r] = FALSE]
    /\ pc' = [pc EXCEPT ![r] = Done]
    /\ UNCHANGED <<weatherData, error, coords, requests, inflight>>

\* The else branch of getLocation: navigator.geolocation is missing.
GeolocationUnsupported(r) ==
    /\ error' =
         [error EXCEPT ![r] = Str("Geolocation is not supported by this browser")]
    /\ loading' = [loading EXCEPT ![r] = FALSE]
    /\ pc' = [pc EXCEPT ![r] = Done]
    /\ UNCHANGED <<weatherData, coords, requests, inflight>>

\* The mount effect: getLocation().
GetLocation(r) ==
    /\ pc[r] = Mounted
    /\ IF hasGeolocation
         THEN /\ pc' = [pc EXCEPT ![r] = AwaitPosition]
              /\ UNCHANGED <<weatherData, loading, error, coords, requests,
                             inflight>>
         ELSE GeolocationUnsupported(r)
    /\ UNCHANGED <<runs, hasGeolocation, response, data, served>>

\* The three requests started together, as with Promise.all.
fetchAllAtOnce(r, p) ==
    /\ coords' = [coords EXCEPT ![r] = p]
    /\ pc' = [pc EXCEPT ![r] = At("fetch", "currentWeather")]
    /\ requests' = [requests EXCEPT ![r] =
                      @ \o [i \in 1..Len(Kinds) |-> Request(Kinds[i], p)]]
    /\ inflight' = [inflight EXCEPT ![r] = KindSet]
    /\ UNCHANGED <<weatherData, loading, error>>

\* fetchWeatherData(lat, lon) up to its first await.
fetchWeatherData(r, p) ==
    /\ coords' = [coords EXCEPT ![r] = p]
    /\ Fetch(r, "currentWeather", p, {})
    /\ UNCHANGED <<weatherData, loading, error>>

\* The success callback of getCurrentPosition.
PositionSuccess(r) ==
    /\ pc[r] = AwaitPosition
    /\ \E p \in Answers(<<"position", "-">>, Positions) :
         /\ served' = [served EXCEPT ![<<"position", "-">>] = p]
         /\ fetchWeatherData(r, p)
    /\ UNCHANGED <<runs, hasGeolocation, response, data>>

\* The error callback of getCurrentPosition.
PositionFailure(r) ==
    /\ pc[r] = AwaitPosition
    /\ PositionError \in Answers(<<"position", "-">>, {PositionError})
    /\ served' = [served EXCEPT ![<<"position", "-">>] = PositionError]
    /\ error' = [error EXCEPT ![r] = Str("Failed to get location")]
    /\ loading' = [loading EXCEPT ![r] = FALSE]
    /\ pc' = [pc EXCEPT ![r] = Done]
    /\ UNCHANGED <<runs, hasGeolocation, weatherData, coords, response, data,
                   requests, inflight>>

\* fetch() rejects: a transport error.
FetchRejected(r, k) ==
    /\ pc[r] = At("fetch", k)
    /\ Rejected \in Answers(<<"response", k>>, {Rejected})
    /\ served' = [served EXCEPT ![<<"response", k>>] = Rejected]
    /\ CatchHandler(r)
    /\ UNCHANGED <<runs, hasGeolocation, coords, response, data>>

\* fetch() resolves with a response; the ok check, then response.json().
FetchResolved(r, k) ==
    /\ pc[r] = At("fetch", k)
    /\ \E resp \in Answers(<<"response", k>>, {Response(ok) : ok \in BOOLEAN}) :
         /\ served' = [served EXCEPT ![<<"response", k>>] = resp]
         /\ response' = [response EXCEPT ![r][k] = resp]
         /\ IF NotOk(resp)
              THEN CatchHandler(r)
              ELSE /\ pc' = [pc EXCEPT ![r] = At("json", k)]
                   /\ UNCHANGED <<weatherData, loading, error, requests,
                                  inflight>>
    /\ UNCHANGED <<runs, hasGeolocation, coords, data>>

\* response.json() rejects: the body cannot be read or parsed.
JsonRejected(r, k) ==
    /\ pc[r] = At("json", k)
    /\ Rejected \in Answers(<<"body", k>>, {Rejected})
    /\ served' = [served EXCEPT ![<<"body", k>>] = Rejected]
    /\ CatchHandler(r)
    /\ UNCHANGED <<runs, hasGeolocation, coords, response, data>>

\* The request awaited after request k, in the order of the source.
NextKind(k) == IF k = "currentWeather" THEN "forecast" ELSE "location"

\* response.json() resolves: the next request, or the merge after the last.
JsonResolved(r, k) ==
    /\ pc[r] = At("json", k)
    /\ \E body \in Answers(<<"body", k>>, Bodies(k)) :
         LET d == [data[r] EXCEPT ![k] = body]
         IN  /\ served' = [served EXCEPT ![<<"body", k>>] = body]
             /\ data' = [data EXCEPT ![r] = d]
             /\ IF k # "location"
                  THEN /\ Fetch(r, NextKind(k), coords[r], {k})
                       /\ UNCHANGED <<weatherData, loading, error>>
                  ELSE IF MergeThrows(d.currentWeather, d.forecast, d.location)
                         THEN CatchHandler(r)
                         ELSE StoreSnapshot(r,
                                mappedWeatherData(d.currentWeather, d.forecast,
                                                  d.location))
    /\ UNCHANGED <<runs, hasGeolocation, coords, response>>

\* The state after the first render of the instances R.
InitOf(R) ==
    /\ runs = R
    /\ hasGeolocation \in BOOLEAN
    /\ weatherData = [r \in R |-> Null]
    /\ loading = [r \in R |-> TRUE]
    /\ error = [r \in R |-> Null]
    /\ pc = [r \in R |-> Mounted]
    /\ coords = [r \in R |-> Unassigned]
    /\ response = [r \in R |-> [k \in KindSet |-> Unassigned]]
    /\ data = [r \in R |-> [k \in KindSet |-> Unassigned]]
    /\ requests = [r \in R |-> <<>>]
    /\ inflight = [r \in R |-> {}]
    /\ served = [q \in Questions |-> Pending]

\* App.tsx mounts one WeatherApp.
Init == InitOf({1})

\* Two sessions on the same host, which gives both the same answers.
InitPair == InitOf({1, 2})

\* One step of some instance, by the kind of step.
Effect == \E r \in runs : GetLocation(r)
OnPosition == \E r \in runs : PositionSuccess(r)
OnPositionError == \E r \in runs : PositionFailure(r)
OnFetchRejected == \E r \in runs, k \in KindSet : FetchRejected(r, k)
OnFetchResolved == \E r \in runs, k \in KindSet : FetchResolved(r, k)
OnJsonRejected == \E r \in runs, k \in KindSet : JsonRejected(r, k)
OnJsonResolved == \E r \in runs, k \in KindSet : JsonResolved(r, k)

Next ==
    \/ Effect
    \/ OnPosition
    \/ OnPositionError
    \/ OnFetchRejected
    \/ OnFetchResolved
    \/ OnJsonRejected
    \/ OnJsonResolved

Spec == Init /\ [][Next]_vars

PairSpec == InitPair /\ [][Next]_vars

\* The effect runs after mount, and the host answers the positioning call
\* and settles every fetch and every body read.
FairSpec == Init /\ [][Next]_vars /\ WF_vars(Next)

(***************************************************************************)
(* The view the component renders, lines 129 to 131.                       *)
(***************************************************************************)
View(r) ==
    IF loading[r] THEN "loading"
    ELSE IF Truthy(error[r]) THEN "error"
    ELSE IF ~Truthy(weatherData[r]) THEN "nothing"
    ELSE "snapshot"

FetchFailed == Str("Failed to fetch weather data")

\* The instance has finished in the error state with the fetch message and
\* no snapshot.
EndedFetchFailed(r) ==
    /\ pc[r] = Done
    /\ ~loading[r]
    /\ error[r] = FetchFailed
    /\ weatherData[r] = Null

(***************************************************************************)
(* Properties.                                                             *)
(***************************************************************************)
\* C1: a response with a non-success status to any of the three requests
\* leaves the instance in the error state 'Failed to fetch weather data'
\* with weatherData null, in the state after the response and ever after,
\* whatever the other responses were.
NonSuccessStatusFails ==
    \A r \in runs, k \in KindSet :
        response[r][k] = Response(FALSE) => EndedFetchFailed(r)

\* The geocode request was answered with a non-success status after the two
\* weather requests succeeded.
NonSuccessStatusSeen ==
    /\ response[1]["currentWeather"] = Response(TRUE)
    /\ response[1]["forecast"] = Response(TRUE)
    /\ response[1]["location"] = Response(FALSE)

\* C2: without navigator.geolocation no request is ever issued, and the
\* effect ends the session in the error state with the capability message.
NoGeolocationNoRequest ==
    ~hasGeolocation =>
        \A r \in runs :
            /\ requests[r] = <<>>
            /\ inflight[r] = {}
            /\ pc[r] \in {Mounted, Done}
            /\ pc[r] = Done =>
                 /\ ~loading[r]
                 /\ error[r] = Str("Geolocation is not supported by this browser")
                 /\ weatherData[r] = Null

\* The effect has run on a host without the capability.
NoGeolocationEnded == ~hasGeolocation /\ pc[1] = Done

\* Some field the merge expects is missing from the bodies d.
MissingExpectedField(d) ==
    LET current_weather == Prop(d.currentWeather, "current_weather")
        daily == Prop(d.forecast, "daily")
        hourly == Prop(d.forecast, "hourly")
    IN  \/ current_weather = Undefined
        \/ Prop(current_weather, "temperature") = Undefined
        \/ Prop(current_weather, "windspeed") = Undefined
        \/ \E f \in DailyFields : Prop(daily, f) = Undefined
        \/ \E f \in HourlyFields : Prop(hourly, f) = Undefined

\* No value of the snapshot is undefined.
SnapshotComplete(w) ==
    /\ w.v.current.temperature # Undefined
    /\ w.v.current.windSpeed # Undefined
    /\ \A i \in 1..Len(w.v.forecast.daily) :
         /\ w.v.forecast.daily[i].temperatureMax # Undefined
         /\ w.v.forecast.daily[i].temperatureMin # Undefined
    /\ \A i \in 1..Len(w.v.forecast.hourly) :
         w.v.forecast.hourly[i].temperature # Undefined
    /\ w.v.astronomy.sunrise # Undefined
    /\ w.v.astronomy.sunset # Undefined

\* The three bodies have been read.
AllBodiesRead(r) == \A k \in KindSet : data[r][k] # Unassigned

\* C3: when all three requests succeed and an expected field is missing
\* from a body, the session ends in the error state 'Failed to fetch weather
\* data' with no snapshot; no stored snapshot has an undefined value.
MissingFieldFails ==
    \A r \in runs :
        /\ (pc[r] = Done /\ AllBodiesRead(r) /\ MissingExpectedField(data[r]))
              => EndedFetchFailed(r)
        /\ weatherData[r] # Null => SnapshotComplete(weatherData[r])

WellFormedWeather(d) ==
    /\ Prop(Prop(d.currentWeather, "current_weather"), "temperature").t = "number"
    /\ Prop(Prop(d.currentWeather, "current_weather"), "windspeed").t = "number"
    /\ Prop(d.forecast, "daily") \in WellFormedDaily
    /\ Prop(d.forecast, "hourly") \in WellFormedHourly

\* C5: with well-formed bodies a snapshot is stored, and in every stored
\* snapshot forecast.daily and forecast.hourly follow the time series of the
\* forecast body (request B) entry by entry: same length, same order, the
\* temperatures of the same index.
ForecastFollowsUpstream ==
    \A r \in runs :
        /\ (pc[r] = Done /\ AllBodiesRead(r) /\ WellFormedWeather(data[r])
              /\ data[r]["location"].t = "object")
             => weatherData[r] # Null
        /\ weatherData[r] # Null =>
             LET daily == data[r]["forecast"].v.daily.v
                 hourly == data[r]["forecast"].v.hourly.v
                 forecast == weatherData[r].v.forecast
             IN  /\ Len(forecast.daily) = Len(daily.time.v)
                 /\ \A i \in 1..Len(daily.time.v) :
                      /\ forecast.daily[i].date = daily.time.v[i]
                      /\ forecast.daily[i].temperatureMax =
                           Index(daily.temperature_2m_max, i - 1)
                      /\ forecast.daily[i].temperatureMin =
                           Index(daily.temperature_2m_min, i - 1)
                 /\ Len(forecast.hourly) = Len(hourly.time.v)
                 /\ \A i \in 1..Len(hourly.time.v) :
                      /\ forecast.hourly[i].time = hourly.time.v[i]
                      /\ forecast.hourly[i].temperature =
                           Index(hourly.temperature_2m, i - 1)

\* A snapshot of the longest well-formed series has been stored.
FullForecastStored ==
    /\ weatherData[1] # Null
    /\ WellFormedWeather(data[1])
    /\ Len(weatherData[1].v.forecast.daily) = MaxDays
    /\ Len(weatherData[1].v.forecast.hourly) = MaxHours

\* v when v is a non-empty string, 'Unknown' when v is absent or empty.
NameOrUnknown(v) ==
    IF v.t = "string" /\ v.v # "" THEN v ELSE Str("Unknown")

\* C6: in a stored snapshot location.name is the geocode city, or 'Unknown'
\* when the city is absent or empty, and location.country likewise from
\* countryName, each on its own; a geocode object without city or
\* countryName does not make the aggregation fail.
LocationDefaults ==
    \A r \in runs :
        /\ weatherData[r] # Null =>
             /\ weatherData[r].v.location.name =
                  NameOrUnknown(Prop(data[r]["location"], "city"))
             /\ weatherData[r].v.location.country =
                  NameOrUnknown(Prop(data[r]["location"], "countryName"))
        /\ (pc[r] = Done /\ AllBodiesRead(r) /\ WellFormedWeather(data[r])
              /\ data[r]["location"].t = "object")
             => error[r] = Null

\* A snapshot was stored from a geocode body with an empty city and a
\* country name.
DefaultedCityStored ==
    /\ weatherData[1] # Null
    /\ data[1]["location"] = Obj([city |-> Str(""), countryName |-> Str("Germany")])

\* The values the source hard-codes are in the snapshot w.
PlaceholdersFixed(w) ==
    /\ w.v.current.humidity = Num(0)
    /\ w.v.current.uvIndex = Num(0)
    /\ w.v.current.pressure = Num(0)
    /\ w.v.current.condition = Str("Clear")
    /\ \A i \in 1..Len(w.v.forecast.daily) :
         w.v.forecast.daily[i].condition = Str("Clear")
    /\ \A i \in 1..Len(w.v.forecast.hourly) :
         w.v.forecast.hourly[i].condition = Str("Clear")
    /\ w.v.astronomy.dawn = Str("")
    /\ w.v.astronomy.dusk = Str("")

Slots(r) == <<loading[r], error[r], weatherData[r]>>

\* C8: the slots start as loading and change only in the step that leaves
\* loading, which sets exactly one of error and weatherData; once loading is
\* false none of the three slots changes again.
SettlesOnce ==
    [][\A r \in runs :
         /\ ~loading[r] => Slots(r)' = Slots(r)
         /\ (loading[r] /\ loading'[r]) => Slots(r)' = Slots(r)
         /\ loading[r] => (error[r] = Null /\ weatherData[r] = Null)
         /\ (loading[r] /\ ~loading'[r]) =>
              ((error'[r] # Null) # (weatherData'[r] # Null))]_vars

\* The session failed at the last body read, after three requests.
FailedAfterThreeRequests ==
    /\ ~loading[1]
    /\ error[1] = FetchFailed
    /\ served[<<"body", "location">>] = Rejected

\* Position of request k in the order of the source.
Ordinal(k) == CHOOSE i \in 1..Len(Kinds) : Kinds[i] = k

\* The host failed request k: a transport error, a non-success status, or a
\* body that could not be read.
RequestFailed(k) ==
    \/ served[<<"response", k>>] \in {Rejected, Response(FALSE)}
    \/ served[<<"body", k>>] = Rejected

\* C9: the requests are issued one at a time in the order A, B, C, each at
\* most once and with the coordinate of the position fix; A only after the
\* positioning success callback, B and C only after the request before has
\* returned a success status and its body has been read; after a failed
\* request no further request is issued.
RequestsSerial ==
    \A r \in runs :
        /\ Cardinality(inflight[r]) <= 1
        /\ Len(requests[r]) <= Len(Kinds)
        /\ \A i \in 1..Len(requests[r]) :
             /\ requests[r][i].kind = Kinds[i]
             /\ served[<<"position", "-">>] \in Positions
             /\ coords[r] = served[<<"position", "-">>]
             /\ requests[r][i] = Request(Kinds[i], coords[r])
             /\ i > 1 =>
                  /\ response[r][Kinds[i - 1]] = Response(TRUE)
                  /\ data[r][Kinds[i - 1]] \in Bodies(Kinds[i - 1])
        /\ inflight[r] \subseteq
             {requests[r][i].kind : i \in {Len(requests[r])} \ {0}}
        /\ \A k \in KindSet : RequestFailed(k) => Len(requests[r]) <= Ordinal(k)

\* The third request is in flight, the first two completed.
ThirdRequestInFlight ==
    /\ Len(requests[1]) = Len(Kinds)
    /\ inflight[1] = {"location"}

\* C10: when the effect runs and the host answers the positioning call and
\* settles every request, the session leaves loading for good, in the error
\* state or with a snapshot; an answer that is a failure leads to the error
\* state.
EventuallySettled ==
    /\ <>[](\A r \in runs :
              ~loading[r] /\ ((error[r] # Null) # (weatherData[r] # Null)))
    /\ ((served[<<"position", "-">>] = PositionError
           \/ \E k \in KindSet : RequestFailed(k))
          ~> (\A r \in runs : ~loading[r] /\ error[r] # Null))

\* The forecast request met a transport error and the session shows the
\* error.
TransportErrorShown ==
    /\ served[<<"response", "forecast">>] = Rejected
    /\ View(1) = "error"

====
